---- MODULE Spec2Model ----
(***************************************************************************)
(* SolidResponse (lib/solid/response.js): the wrapper built from one raw   *)
(* XHR response and the verb of the request, and its query methods.        *)
(*                                                                         *)
(* JavaScript values are records [kind, val].  A string is the sequence of *)
(* its atoms: HTTP verbs and the Allow header are spelt letter by letter,  *)
(* URIs, relation names and media types are single opaque atoms, and the   *)
(* Link header is spelt in its lexical tokens.  An object is a function    *)
(* from its property names to values; a property that was never assigned   *)
(* is not in its domain and reads as undefined.                            *)
(***************************************************************************)
EXTENDS Naturals, Sequences, FiniteSets

VARIABLES xhrResponse, method, webUtil, pc, this, threw, headerReads,
          returned, calls

vars == <<xhrResponse, method, webUtil, pc, this, threw, headerReads,
          returned, calls>>

\* ---------------------------------------------------------------- bounds
MaxLinks == 2
MaxAllow == 2
MaxCalls == 2

\* ------------------------------------------------------ JavaScript values
Undefined == [kind |-> "undefined", val |-> <<>>]
Null == [kind |-> "null", val |-> <<>>]
Bool(b) == [kind |-> "boolean", val |-> b]
Str(atoms) == [kind |-> "string", val |-> atoms]
Obj(props) == [kind |-> "object", val |-> props]
EmptyString == Str(<<>>)
EmptyObject == Obj([k \in {} |-> Undefined])
NotCalled == [kind |-> "notcalled", val |-> <<>>]

\* ToBoolean: what `if (v)`, `!v`, `a || b` and `a && b` test
Truthy(v) ==
  CASE v.kind = "undefined" -> FALSE
    [] v.kind = "null" -> FALSE
    [] v.kind = "boolean" -> v.val
    [] v.kind = "string" -> v.val # <<>>
    [] OTHER -> TRUE

\* a || b
Or(a, b) == IF Truthy(a) THEN a ELSE b

\* obj[key]; undefined when the property is absent
Prop(obj, key) == IF key \in DOMAIN obj.val THEN obj.val[key] ELSE Undefined

\* this.<field> of the view under construction or constructed
Field(t, f) == IF f \in DOMAIN t THEN t[f] ELSE Undefined

UpperToLower ==
  [c \in {"A","B","C","D","E","F","G","H","I","J","K","L","M",
          "N","O","P","Q","R","S","T","U","V","W","X","Y","Z"} |->
     CASE c = "A" -> "a" [] c = "B" -> "b" [] c = "C" -> "c" [] c = "D" -> "d"
       [] c = "E" -> "e" [] c = "F" -> "f" [] c = "G" -> "g" [] c = "H" -> "h"
       [] c = "I" -> "i" [] c = "J" -> "j" [] c = "K" -> "k" [] c = "L" -> "l"
       [] c = "M" -> "m" [] c = "N" -> "n" [] c = "O" -> "o" [] c = "P" -> "p"
       [] c = "Q" -> "q" [] c = "R" -> "r" [] c = "S" -> "s" [] c = "T" -> "t"
       [] c = "U" -> "u" [] c = "V" -> "v" [] c = "W" -> "w" [] c = "X" -> "x"
       [] c = "Y" -> "y" [] c = "Z" -> "z"]

LowerAtom(c) == IF c \in DOMAIN UpperToLower THEN UpperToLower[c] ELSE c

\* String.prototype.toLowerCase
toLowerCase(s) == Str([i \in 1..Len(s.val) |-> LowerAtom(s.val[i])])

\* ------------------------------------------------------- the raw response
HeaderNames ==
  {"Link", "Allow", "Accept-Patch", "Location", "User", "Updates-Via",
   "Content-Type"}

\* xhrResponse.getResponseHeader(name): the value, or null when not sent
getResponseHeader(x, name) == x.val.headers[name]

\* ------------------------------------------- webUtil (lib/util/web-util)
\* Least index of atom a in s at or after position from; 0 when there is none
IndexFrom(s, a, from) ==
  IF \E i \in from..Len(s) : s[i] = a
    THEN CHOOSE i \in from..Len(s) :
           s[i] = a /\ \A j \in from..(i - 1) : s[j] # a
    ELSE 0

\* s cut at every separator atom sep
RECURSIVE SplitOn(_, _)
SplitOn(s, sep) ==
  LET i == IndexFrom(s, sep, 1)
  IN IF i = 0 THEN <<s>>
     ELSE <<SubSeq(s, 1, i - 1)>> \o SplitOn(SubSeq(s, i + 1, Len(s)), sep)

\* The bracketed target URI of one Link entry: <<found, atoms>>
EntryTarget(seg) ==
  LET i == IndexFrom(seg, "<", 1)
      j == IF i = 0 THEN 0 ELSE IndexFrom(seg, ">", i + 1)
  IN IF j = 0 THEN <<FALSE, <<>>>> ELSE <<TRUE, SubSeq(seg, i + 1, j - 1)>>

\* The rel parameter of one Link entry, surrounding quotes stripped
EntryRel(seg) ==
  LET r == IndexFrom(seg, "rel=", 1)
  IN IF r = 0 \/ r = Len(seg) THEN <<FALSE, <<>>>>
     ELSE IF seg[r + 1] = "\""
       THEN LET q == IndexFrom(seg, "\"", r + 2)
            IN IF q = 0 THEN <<FALSE, <<>>>>
               ELSE <<q > r + 2, SubSeq(seg, r + 2, q - 1)>>
       ELSE <<TRUE, <<seg[r + 1]>>>>

\* Entries folded left to right into the relation map: a later entry of a
\* relation overwrites an earlier one, a malformed entry is skipped
RECURSIVE FoldEntries(_, _)
FoldEntries(segs, rels) ==
  IF segs = <<>> THEN rels
  ELSE LET t == EntryTarget(Head(segs))
           r == EntryRel(Head(segs))
       IN IF t[1] /\ r[1]
            THEN FoldEntries(Tail(segs),
                   [k \in DOMAIN rels \cup {r[2]} |->
                      IF k = r[2] THEN Str(t[2]) ELSE rels[k]])
            ELSE FoldEntries(Tail(segs), rels)

\* webUtil.parseLinkHeader.  webUtil names what the parser in use answers to
\* a missing header: the empty map, or no map at all.
parseLinkHeader(link) ==
  IF ~Truthy(link)
    THEN IF webUtil = "empty map" THEN EmptyObject ELSE Undefined
    ELSE Obj(FoldEntries(SplitOn(link.val, ","), EmptyObject.val))

IsSeparator(c) == c \in {",", " "}

\* The maximal runs of non-separator atoms of s
RECURSIVE Tokens(_)
Tokens(s) ==
  IF s = <<>> THEN {}
  ELSE IF IsSeparator(Head(s)) THEN Tokens(Tail(s))
  ELSE LET stop == IF \E i \in 1..Len(s) : IsSeparator(s[i])
                     THEN CHOOSE i \in 1..Len(s) :
                            IsSeparator(s[i])
                            /\ \A j \in 1..(i - 1) : ~IsSeparator(s[j])
                     ELSE Len(s) + 1
       IN {SubSeq(s, 1, stop - 1)} \cup Tokens(SubSeq(s, stop, Len(s)))

PatchKey == <<"p", "a", "t", "c", "h">>

\* webUtil.parseAllowedMethods
parseAllowedMethods(allowMethodsHeader, acceptPatchHeader) ==
  LET verbs == IF Truthy(allowMethodsHeader)
                 THEN {toLowerCase(Str(t)).val : t \in Tokens(allowMethodsHeader.val)}
                 ELSE {}
      patch == IF Truthy(acceptPatchHeader) THEN {PatchKey} ELSE {}
  IN Obj([k \in verbs \cup patch |-> Bool(TRUE)])

\* ------------------------------------------------------- SolidResponse
GetVerb == Str(<<"g", "e", "t">>)

\* lines 40-44: the verb lower-cased, or '' when none is given
NormalizeMethod_NoLowerCase(m) == IF Truthy(m) THEN m ELSE EmptyString
NormalizeMethod(m) == IF Truthy(m) THEN toLowerCase(m) ELSE EmptyString

\* lines 37-38: webUtil.parseLinkHeader(linkHeader) || {}
LinkHeadersOf_NoDefault(x) == parseLinkHeader(getResponseHeader(x, "Link"))
LinkHeadersOf(x) == Or(parseLinkHeader(getResponseHeader(x, "Link")), EmptyObject)

\* SolidResponse.prototype.parseAllowedMethods; m is the normalized verb
SolidResponse_parseAllowedMethods_NoAcceptPatch(x, m) ==
  IF m = GetVerb THEN EmptyObject
  ELSE parseAllowedMethods(getResponseHeader(x, "Allow"), Null)
SolidResponse_parseAllowedMethods(x, m) ==
  IF m = GetVerb THEN EmptyObject
  ELSE parseAllowedMethods(getResponseHeader(x, "Allow"),
                           getResponseHeader(x, "Accept-Patch"))

\* The headers parseAllowedMethods asks the response for
AllowedMethodsReads(m) == IF m = GetVerb THEN {} ELSE {"Allow", "Accept-Patch"}

\* line 78: linkHeaders['meta'] || linkHeaders['describedBy']
MetaOf_DescribedByFirst(lh) == Or(Prop(lh, <<"describedBy">>), Prop(lh, <<"meta">>))
MetaOf(lh) == Or(Prop(lh, <<"meta">>), Prop(lh, <<"describedBy">>))

\* line 89: getResponseHeader('Location') || responseURL
UrlOf_NoFallback(x) == getResponseHeader(x, "Location")
UrlOf(x) == Or(getResponseHeader(x, "Location"), x.val.responseURL)

\* lines 18-23: the view of a missing response; only these fields are set
NullResponse ==
  [this |-> [xhr |-> Null, user |-> EmptyString, method |-> Null],
   reads |-> {}, threw |-> FALSE]

\* lines 37-108: the view of a response.  Calling getResponseHeader on a
\* value that is no object raises a TypeError and leaves no view.
FullResponse(x, m0) ==
  IF x.kind # "object"
    THEN [this |-> [k \in {} |-> Undefined], reads |-> {}, threw |-> TRUE]
    ELSE LET lh == LinkHeadersOf(x)
             m == NormalizeMethod(m0)
         IN [this |->
               [linkHeaders |-> lh,
                method |-> m,
                acl |-> Prop(lh, <<"acl">>),
                allowedMethods |-> SolidResponse_parseAllowedMethods(x, m),
                meta |-> MetaOf(lh),
                type |-> Prop(lh, <<"type">>),
                url |-> UrlOf(x),
                user |-> Or(getResponseHeader(x, "User"), EmptyString),
                websocket |-> Or(getResponseHeader(x, "Updates-Via"), EmptyString),
                xhr |-> x],
             reads |-> {"Link", "Location", "User", "Updates-Via"}
                         \cup AllowedMethodsReads(m),
             threw |-> FALSE]

\* function SolidResponse (xhrResponse, method)
SolidResponse_NoGuard(x, m0) == FullResponse(x, m0)
SolidResponse(x, m0) ==
  IF ~Truthy(x) THEN NullResponse ELSE FullResponse(x, m0)

\* SolidResponse.prototype.contentType
contentType_WrongHeader(t) ==
  IF Truthy(t.xhr) THEN getResponseHeader(t.xhr, "Location") ELSE Null
contentType(t) ==
  IF Truthy(t.xhr) THEN getResponseHeader(t.xhr, "Content-Type") ELSE Null

\* SolidResponse.prototype.exists:
\*   this.xhr && this.xhr.status >= 200 && this.xhr.status < 400
exists(t) ==
  IF ~Truthy(t.xhr) THEN t.xhr
  ELSE IF ~(t.xhr.val.status >= 200) THEN Bool(FALSE)
  ELSE Bool(t.xhr.val.status < 400)

\* SolidResponse.prototype.isLoggedIn: return this.user
isLoggedIn(t) == t.user

\* SolidResponse.prototype.raw
raw(t) == IF Truthy(t.xhr) THEN t.xhr.val.response ELSE Null

\* ---------------------------------------------------------------- inputs
SeqsUpTo(S, n) == UNION {[1..k -> S] : k \in 0..n}

\* The sequences ss[1], sep, ss[2], sep, ... joined into one
RECURSIVE Join(_, _)
Join(ss, sep) ==
  IF ss = <<>> THEN <<>>
  ELSE IF Len(ss) = 1 THEN ss[1]
  ELSE ss[1] \o sep \o Join(Tail(ss), sep)

\* <uri>;rel="rel"
LinkEntry(uri, rel) == <<"<">> \o uri \o <<">", ";", "rel=", "\"", rel, "\"">>

LinkEntries ==
  {LinkEntry(<<"a">>, "acl"), LinkEntry(<<"a">>, "describedBy"),
   LinkEntry(<<"b">>, "meta"), LinkEntry(<<>>, "meta"),
   LinkEntry(<<"b">>, "type"),
   <<"<", "a", ">">>, <<"rel=", "\"", "type", "\"">>}

\* null: the header was not sent
LinkValues ==
  {Null} \cup {Str(Join(es, <<",">>)) : es \in SeqsUpTo(LinkEntries, MaxLinks)}

AllowVerbs == {<<"G", "E", "T">>, <<"P", "u", "t">>, <<"P", "A", "T", "C", "H">>}

AllowValues ==
  {Null} \cup {Str(Join(vs, <<",", " ">>)) : vs \in SeqsUpTo(AllowVerbs, MaxAllow)}

AcceptPatchValues == {Null, EmptyString, Str(<<"application/sparql-update">>)}
LocationValues == {Null, EmptyString, Str(<<"https://ex.org/new">>)}
UserValues == {Null, EmptyString, Str(<<"alice">>)}
UpdatesViaValues == {Null, Str(<<"wss://ex.org/foo">>)}
ContentTypeValues == {Null, Str(<<"text/turtle">>)}
Statuses == {199, 200, 204, 301, 399, 400, 404, 500}

\* The method argument; undefined: the caller gave none
MethodArgs ==
  {Undefined, EmptyString, GetVerb, Str(<<"G", "E", "T">>),
   Str(<<"G", "e", "t">>), Str(<<"O", "P", "T", "I", "O", "N", "S">>),
   Str(<<"p", "o", "s", "t">>)}
FewMethodArgs ==
  {Undefined, Str(<<"G", "E", "T">>), Str(<<"O", "P", "T", "I", "O", "N", "S">>)}

NoHeaders == [h \in HeaderNames |-> Null]

XhrResponse(status, headers) ==
  Obj([status |-> status, headers |-> headers,
       responseURL |-> Str(<<"https://ex.org/foo">>),
       response |-> Str(<<"<> a <#Thing> .">>)])

Methods == {"contentType", "exists", "isLoggedIn", "raw"}

\* ------------------------------------------------------------ behaviour
\* The caller holds a raw response (or none) and a verb; nothing is built.
\* The inputs vary one group of headers at a time.
Init ==
  /\ pc = "start"
  /\ this = [k \in {} |-> Undefined]
  /\ threw = FALSE
  /\ headerReads = {}
  /\ returned = [m \in Methods |-> NotCalled]
  /\ calls = 0
  /\ \/ /\ xhrResponse \in
             {XhrResponse(200, [NoHeaders EXCEPT !["Link"] = l]) : l \in LinkValues}
        /\ method \in MethodArgs
        /\ webUtil \in {"empty map", "no map"}
     \/ /\ xhrResponse \in
             {XhrResponse(200, [NoHeaders EXCEPT !["Allow"] = a[1],
                                                 !["Accept-Patch"] = a[2]]) :
                a \in AllowValues \X AcceptPatchValues}
        /\ method \in MethodArgs
        /\ webUtil = "empty map"
     \/ /\ xhrResponse \in
             {XhrResponse(v[1], [NoHeaders EXCEPT !["Location"] = v[2],
                                                  !["User"] = v[3],
                                                  !["Updates-Via"] = v[4],
                                                  !["Content-Type"] = v[5]]) :
                v \in Statuses \X LocationValues \X UserValues
                        \X UpdatesViaValues \X ContentTypeValues}
        /\ method \in FewMethodArgs
        /\ webUtil = "empty map"
     \/ /\ xhrResponse \in {Null, Undefined}
        /\ method \in MethodArgs
        /\ webUtil \in {"empty map", "no map"}

\* new SolidResponse(xhrResponse, method)
Construct ==
  /\ pc = "start"
  /\ LET r == SolidResponse(xhrResponse, method)
     IN /\ this' = r.this
        /\ threw' = r.threw
        /\ headerReads' = r.reads
        /\ pc' = IF r.threw THEN "threw" ELSE "constructed"
  /\ UNCHANGED <<xhrResponse, method, webUtil, returned, calls>>

\* response.contentType()
CallContentType ==
  /\ pc = "constructed" /\ calls < MaxCalls
  /\ returned' = [returned EXCEPT !["contentType"] = contentType(this)]
  /\ headerReads' = headerReads \cup
                      (IF Truthy(this.xhr) THEN {"Content-Type"} ELSE {})
  /\ calls' = calls + 1
  /\ UNCHANGED <<xhrResponse, method, webUtil, pc, this, threw>>

\* response.exists()
CallExists ==
  /\ pc = "constructed" /\ calls < MaxCalls
  /\ returned' = [returned EXCEPT !["exists"] = exists(this)]
  /\ calls' = calls + 1
  /\ UNCHANGED <<xhrResponse, method, webUtil, pc, this, threw, headerReads>>

\* response.isLoggedIn(), with a variant that clears the user it reports
CallIsLoggedIn_ClearsUser ==
  /\ pc = "constructed" /\ calls < MaxCalls
  /\ returned' = [returned EXCEPT !["isLoggedIn"] = isLoggedIn(this)]
  /\ this' = [this EXCEPT !.user = EmptyString]
  /\ calls' = calls + 1
  /\ UNCHANGED <<xhrResponse, method, webUtil, pc, threw, headerReads>>
CallIsLoggedIn ==
  /\ pc = "constructed" /\ calls < MaxCalls
  /\ returned' = [returned EXCEPT !["isLoggedIn"] = isLoggedIn(this)]
  /\ calls' = calls + 1
  /\ UNCHANGED <<xhrResponse, method, webUtil, pc, this, threw, headerReads>>

\* response.raw()
CallRaw ==
  /\ pc = "constructed" /\ calls < MaxCalls
  /\ returned' = [returned EXCEPT !["raw"] = raw(this)]
  /\ calls' = calls + 1
  /\ UNCHANGED <<xhrResponse, method, webUtil, pc, this, threw, headerReads>>

Next ==
  \/ Construct
  \/ CallContentType
  \/ CallExists
  \/ CallIsLoggedIn
  \/ CallRaw

Spec == Init /\ [][Next]_vars

\* ---------------------------------------------------------------- claims
HasResponse == xhrResponse.kind = "object"
Header(name) == xhrResponse.val.headers[name]
Called(m) == returned[m] # NotCalled

\* The verb reads 'get' in some letter case
IsGetSpelling(m) ==
  /\ m.kind = "string"
  /\ Len(m.val) = 3
  /\ m.val[1] \in {"g", "G"}
  /\ m.val[2] \in {"e", "E"}
  /\ m.val[3] \in {"t", "T"}

\* The lower-cased verbs an Allow header lists: its maximal stretches free of
\* commas and spaces
ListedVerbs(allow) ==
  IF allow.kind # "string" THEN {}
  ELSE LET s == allow.val
       IN {toLowerCase(Str(SubSeq(s, i, j))).val : <<i, j>> \in
             {p \in (1..Len(s)) \X (1..Len(s)) :
                /\ p[1] <= p[2]
                /\ \A k \in p[1]..p[2] : s[k] \notin {",", " "}
                /\ (p[1] = 1 \/ s[p[1] - 1] \in {",", " "})
                /\ (p[2] = Len(s) \/ s[p[2] + 1] \in {",", " "})}}

\* C1: exists() returns true exactly when the view was built from a raw
\* response whose status s satisfies 200 <= s < 400, and returns false in
\* every other case, the view built with no raw response included.
C1_ExistsIsTrueOrFalse ==
  Called("exists") =>
    returned["exists"] =
      Bool(IF HasResponse
             THEN xhrResponse.val.status >= 200 /\ xhrResponse.val.status < 400
             ELSE FALSE)

\* C2: a view built from a present response with a verb that reads 'get' in
\* any letter case has the empty map as allowedMethods, whatever Allow and
\* Accept-Patch hold.
C2_GetHasNoAllowedMethods ==
  (pc = "constructed" /\ HasResponse /\ IsGetSpelling(method)) =>
    this.allowedMethods = EmptyObject

C2_Witness ==
  /\ pc = "constructed" /\ HasResponse
  /\ method = Str(<<"G", "E", "T">>)
  /\ Truthy(Header("Allow")) /\ Truthy(Header("Accept-Patch"))
  /\ this.allowedMethods = EmptyObject

\* C3: a view built from a present response with a verb that does not
\* normalize to 'get' (an absent verb included) maps exactly the lower-cased
\* verbs of Allow to true, and 'patch' as well when Accept-Patch is non-empty;
\* with both headers absent or empty the map is empty.
C3_AllowedMethodsFromHeaders ==
  (pc = "constructed" /\ HasResponse /\ ~IsGetSpelling(method)) =>
    LET patch == IF Header("Accept-Patch").kind = "string"
                      /\ Header("Accept-Patch").val # <<>>
                   THEN {PatchKey} ELSE {}
    IN /\ this.allowedMethods =
            Obj([k \in ListedVerbs(Header("Allow")) \cup patch |-> Bool(TRUE)])
       /\ (~Truthy(Header("Allow")) /\ ~Truthy(Header("Accept-Patch")))
            => this.allowedMethods = EmptyObject

C3_Witness ==
  /\ pc = "constructed" /\ HasResponse
  /\ method = Undefined
  /\ Header("Allow") = Str(<<"G", "E", "T", ",", " ", "P", "u", "t">>)
  /\ Truthy(Header("Accept-Patch"))
  /\ DOMAIN this.allowedMethods.val =
       {<<"g", "e", "t">>, <<"p", "u", "t">>, PatchKey}

\* C4 as stated: building a view from a falsy raw response, for any verb,
\* raises nothing and reads no header; method is null, user is '' and
\* linkHeaders is an empty map.
C4_NullViewHasEmptyLinkHeaders ==
  (pc # "start" /\ ~Truthy(xhrResponse)) =>
    /\ threw = FALSE
    /\ headerReads = {}
    /\ Field(this, "method") = Null
    /\ Field(this, "user") = EmptyString
    /\ Field(this, "linkHeaders") = EmptyObject

\* C4 amended: building a view from a falsy raw response, for any verb,
\* raises nothing and reads no header; method is null, user is '', and
\* linkHeaders is never assigned: it reads as undefined.
C4_NullViewLeavesLinkHeadersUnset ==
  (pc # "start" /\ ~Truthy(xhrResponse)) =>
    /\ threw = FALSE
    /\ headerReads = {}
    /\ Field(this, "method") = Null
    /\ Field(this, "user") = EmptyString
    /\ "linkHeaders" \notin DOMAIN this
    /\ Field(this, "linkHeaders") = Undefined

C4_Witness ==
  /\ pc = "constructed"
  /\ xhrResponse = Null
  /\ method = Str(<<"O", "P", "T", "I", "O", "N", "S">>)
  /\ Called("contentType")
  /\ this.method = Null

\* C5: a view built from a present response without a Link header, for any
\* verb, has the empty map as linkHeaders (also when the parser answers with
\* no map) and acl, meta and type undefined.
C5_NoLinkHeaderGivesEmptyMap ==
  (pc = "constructed" /\ HasResponse /\ Header("Link") = Null) =>
    /\ this.linkHeaders = EmptyObject
    /\ this.acl = Undefined
    /\ this.meta = Undefined
    /\ this.type = Undefined

C5_Witness ==
  /\ pc = "constructed" /\ HasResponse
  /\ Header("Link") = Null
  /\ webUtil = "no map"
  /\ method = Str(<<"p", "o", "s", "t">>)
  /\ this.linkHeaders = EmptyObject

\* C6 as stated: acl is linkHeaders.acl, type is linkHeaders.type, and meta
\* is linkHeaders.meta when the link map has a 'meta' relation, otherwise
\* linkHeaders.describedBy.
C6_MetaWheneverRelationPresent ==
  (pc = "constructed" /\ HasResponse) =>
    /\ this.acl = Prop(this.linkHeaders, <<"acl">>)
    /\ this.type = Prop(this.linkHeaders, <<"type">>)
    /\ this.meta = IF <<"meta">> \in DOMAIN this.linkHeaders.val
                     THEN this.linkHeaders.val[<<"meta">>]
                     ELSE Prop(this.linkHeaders, <<"describedBy">>)

\* C6 amended: acl is linkHeaders.acl, type is linkHeaders.type, and meta is
\* linkHeaders.meta when the link map has a 'meta' relation with a non-empty
\* target, otherwise linkHeaders.describedBy; a non-empty 'meta' target takes
\* precedence over 'describedBy'.
C6_MetaWhenTargetNonEmpty ==
  (pc = "constructed" /\ HasResponse) =>
    /\ this.acl = Prop(this.linkHeaders, <<"acl">>)
    /\ this.type = Prop(this.linkHeaders, <<"type">>)
    /\ this.meta = IF /\ <<"meta">> \in DOMAIN this.linkHeaders.val
                      /\ this.linkHeaders.val[<<"meta">>].val # <<>>
                     THEN this.linkHeaders.val[<<"meta">>]
                     ELSE Prop(this.linkHeaders, <<"describedBy">>)

C6_Witness ==
  /\ pc = "constructed" /\ HasResponse
  /\ this.linkHeaders.val =
       [k \in {<<"meta">>, <<"describedBy">>} |->
          IF k = <<"meta">> THEN Str(<<"b">>) ELSE Str(<<"a">>)]
  /\ this.meta = Str(<<"b">>)

\* C7: isLoggedIn() returns true exactly when user is a non-empty string, and
\* false when the User header is absent or empty and for the view built with
\* no raw response.
C7_IsLoggedInIsTrueOrFalse ==
  Called("isLoggedIn") =>
    returned["isLoggedIn"] =
      Bool(this.user.kind = "string" /\ this.user.val # <<>>)

\* C8: on a view built from a falsy raw response contentType() and raw()
\* return null; on a view built from a present response contentType()
\* returns its Content-Type header and raw() its body.
C8_PassThroughs ==
  /\ Called("contentType") =>
       returned["contentType"] =
         IF HasResponse THEN Header("Content-Type") ELSE Null
  /\ Called("raw") =>
       returned["raw"] = IF HasResponse THEN xhrResponse.val.response ELSE Null

C8_Witness ==
  /\ HasResponse
  /\ Header("Content-Type") = Str(<<"text/turtle">>)
  /\ Header("Location") # Null
  /\ returned["contentType"] = Str(<<"text/turtle">>)
  /\ returned["raw"] = xhrResponse.val.response

\* C9 as stated: url is the Location header whenever that header is present,
\* and the response's resolved URL otherwise.
C9_UrlIsLocationWhenPresent ==
  (pc = "constructed" /\ HasResponse) =>
    this.url = IF Header("Location") # Null
                 THEN Header("Location")
                 ELSE xhrResponse.val.responseURL

\* C9 amended: url is the Location header when that header is present and
\* non-empty, and the response's resolved URL when it is absent or empty; the
\* verb and the other headers have no influence.
C9_UrlIsLocationWhenNonEmpty ==
  (pc = "constructed" /\ HasResponse) =>
    this.url = IF Header("Location") # Null /\ Header("Location").val # <<>>
                 THEN Header("Location")
                 ELSE xhrResponse.val.responseURL

C9_Witness ==
  /\ pc = "constructed" /\ HasResponse
  /\ Header("Location") = Str(<<"https://ex.org/new">>)
  /\ Truthy(Header("User"))
  /\ this.url = Str(<<"https://ex.org/new">>)
  /\ this.url # xhrResponse.val.responseURL

\* C10: the query methods leave every field of a constructed view as it is,
\* and a method called again returns what it returned before.
C10_QueriesLeaveTheViewAlone ==
  [][pc = "constructed" =>
       /\ this' = this
       /\ \A m \in Methods : Called(m) => returned'[m] = returned[m]]_vars

C10_Witness ==
  /\ pc = "constructed" /\ HasResponse
  /\ calls >= 2
  /\ Cardinality({m \in Methods : Called(m)}) = 1
  /\ Called("isLoggedIn")
  /\ Truthy(this.user)

====
